---- MODULE Spec2Model ----
(***************************************************************************)
(* The research loop of app.py (search_and_add_background_references), the *)
(* planner and gatherer functions it calls, the status channel             *)
(* (clients / set_status_message / ws) and conversation_internal.          *)
(*                                                                         *)
(* Strings that the code inspects or parses are sequences of tokens: "["   *)
(* and "]" are the brackets, a member of Queries or URLs is a quoted JSON  *)
(* string, a sentinel sentence is one token, "garbage" is text that is no  *)
(* JSON.  Python values are tagged records: None, Str(tokens), List(seq).  *)
(***************************************************************************)
EXTENDS Naturals, Sequences, FiniteSets

\* ------------------------------------------------------------------ bounds
MaxRounds == 2
MaxBatch == 2
MaxUrls == 2

\* ------------------------------------------------------------ input sets
Queries == {"q1", "q2"}
URLs == {"u1", "u2"}
Texts == {"t1"}
Session == "s1"

\* several connections and several requests at once
Conns == {"c1", "c2"}
Ids == {"s1", "s2"}
Runs == {"r1", "r2"}
NoId == "none"
Absent == "absent"

SeqsUpTo(S, n) == UNION {[1..k -> S] : k \in 0..n}

\* ----------------------------------------------------------- Python values
None == [tag |-> "None"]
Str(toks) == [tag |-> "str", v |-> toks]
List(xs) == [tag |-> "list", v |-> xs]
Bool(b) == [tag |-> "bool", v |-> b]
ParseError == [tag |-> "raise"]

NoSearchesRequired == Str(<<"No searches required.">>)
SearchErrorSentinel == Str(<<"Search error.">>)
MoreInformationNeeded == Str(<<"More information needed.">>)

\* json.loads on a token string: a JSON array of string literals, or a raise
JsonItems(toks) == SubSeq(toks, 2, Len(toks) - 1)

\* a parser that takes whatever stands between the first and the last token
JsonLoadsLenient(toks, Lits) == List(JsonItems(toks))

JsonLoads(toks, Lits) ==
    IF /\ Len(toks) >= 2
       /\ toks[1] = "["
       /\ toks[Len(toks)] = "]"
       /\ \A i \in 2..(Len(toks) - 1) : toks[i] \in Lits
    THEN List(JsonItems(toks))
    ELSE ParseError

\* json.dumps(Summaries, indent=4)
RECURSIVE DumpItems(_)
DumpItems(xs) ==
    IF xs = <<>> THEN <<>>
    ELSE <<"{", "URL", Head(xs).URL, "summary", Head(xs).summary, "}">>
         \o DumpItems(Tail(xs))

JsonDumps(val) ==
    IF val = None THEN <<"null">>
    ELSE <<"[">> \o DumpItems(val.v) \o <<"]">>

\* --------------------------------------------------------------- the state
VARIABLES
    clients,        \* keys of the clients registry (line 49)
    wsPc,           \* position of the ws handler of Session
    pc,             \* position of conversation_internal / the research loop
    round,          \* number of passes of the while loop started so far
    Summaries,      \* local Summaries of the loop (line 604)
    searches,       \* local searches of the loop (line 609)
    lastCall,       \* the last planner call: name, Summaries argument, the
                    \* model's answer to a sufficiency check, verdict
    failing,        \* queries on which the provider fails during this batch
    searchresults,  \* local searchresults of get_urls_to_browse (line 532)
    providerCalls,  \* the search_bing calls of this batch, in order
    URLsToBrowse,   \* local URLsToBrowse of the loop (line 615)
    tasks,          \* the process_url tasks of the current gather
    gathered,       \* what each get_article_summaries call returned, per round
    log,            \* the loop's calls and notifications of this run, in order
    outcome,        \* return value of search_and_add_background_references
    response,       \* what conversation_internal answered
    sinks,          \* the clients registry when several connections are open
    conns,          \* each ws handler: its position and its page_instance_id
    runs,           \* each loop invocation: its position and its locals
    inbox           \* per connection, the runs whose messages it was sent

vars == <<clients, wsPc, pc, round, Summaries, searches, lastCall, failing,
          searchresults, providerCalls, URLsToBrowse, tasks, gathered, log,
          outcome, response, sinks, conns, runs, inbox>>

wsVars == <<clients, wsPc>>
loopVars == <<pc, round, Summaries, searches, lastCall, failing, searchresults,
              providerCalls, URLsToBrowse, tasks, gathered, log, outcome,
              response>>
searchVars == <<failing, searchresults, providerCalls>>
multiVars == <<sinks, conns, runs, inbox>>

Unset == [tag |-> "unset"]

\* the frame of a search_and_add_background_references call not yet made
NewRun ==
    [pc |-> "idle", sid |-> NoId, round |-> 0, Summaries |-> None,
     searches |-> Unset, URLsToBrowse |-> Unset, outcome |-> Unset]

Init ==
    /\ clients = {}
    /\ wsPc = "none"
    /\ pc = "idle"
    /\ round = 0
    /\ Summaries = None
    /\ searches = Unset
    /\ lastCall = [op |-> "none", arg |-> Unset, answer |-> <<>>, ret |-> Unset]
    /\ failing = {}
    /\ searchresults = Unset
    /\ providerCalls = <<>>
    /\ URLsToBrowse = Unset
    /\ tasks = <<>>
    /\ gathered = <<>>
    /\ log = <<>>
    /\ outcome = Unset
    /\ response = Unset
    /\ sinks = [id \in Ids |-> Absent]
    /\ conns = [c \in Conns |-> [pc |-> "none", id |-> NoId]]
    /\ runs = [r \in Runs |-> NewRun]
    /\ inbox = [c \in Conns |-> {}]

\* ------------------------------------------------------- status channel
\* ws, lines 70-71: a fresh id is generated and the sink registered under it
WsRegister ==
    /\ wsPc = "none"
    /\ clients' = clients \cup {Session}
    /\ wsPc' = "registered"
    /\ UNCHANGED <<loopVars, multiVars>>

\* ws, line 72: the id is announced to the client; the send is outside the try
WsAnnounce ==
    /\ wsPc = "registered"
    /\ \E ok \in BOOLEAN : wsPc' = IF ok THEN "open" ELSE "failed"
    /\ UNCHANGED <<clients>>
    /\ UNCHANGED <<loopVars, multiVars>>

\* ws, lines 73-80: receive raises on disconnect; finally removes the entry
WsDisconnect ==
    /\ wsPc = "open"
    /\ clients' = clients \ {Session}
    /\ wsPc' = "closed"
    /\ UNCHANGED <<loopVars, multiVars>>

\* set_status_message, lines 51-52: clients[id] raises KeyError for a missing
\* key, and send raises on a sink whose connection is gone
CanSend(id) == id \in clients /\ wsPc \in {"registered", "open"}

\* a loop that forgets to send its notifications
NotifySkipped(message, next) == log' = log /\ pc' = next

\* one notification of the loop: sent and logged, or the exception leaves
\* search_and_add_background_references for conversation_internal's except
Notify(message, next) ==
    IF CanSend(Session)
    THEN /\ log' = Append(log, message)
         /\ pc' = next
    ELSE /\ log' = log
         /\ pc' = "raised"

\* ------------------------------------------------------------- the planner
PlanAnswers ==
    {NoSearchesRequired.v, <<>>, <<"garbage">>}
    \cup {<<"[">> \o qs \o <<"]">> : qs \in SeqsUpTo(Queries, MaxBatch)}
    \cup (SeqsUpTo(Queries, MaxBatch) \ {<<>>})

\* identify_searches, lines 524-527: the bracket repair
RepairBrackets(toks) ==
    LET a == IF toks[1] # "[" THEN <<"[">> \o toks ELSE toks
    IN  IF a[Len(a)] # "]" THEN a \o <<"]">> ELSE a

\* identify_searches, lines 520-529, on the model's answer
ParseSearches(answer) ==
    IF answer = NoSearchesRequired.v THEN None
    ELSE IF answer = <<>> THEN ParseError
    ELSE JsonLoads(RepairBrackets(answer), Queries)

\* the Summaries argument of the identify_searches call of line 609
IdentifyArg(S) == None

\* conversation_internal is entered for a request that carries the id the
\* client was told on its status connection
StartRequest ==
    /\ pc = "idle"
    /\ wsPc = "open"
    /\ pc' = "plan"
    /\ round' = 1
    /\ UNCHANGED <<Summaries, searches, lastCall, searchVars, URLsToBrowse, tasks,
                   gathered, log, outcome, response>>
    /\ UNCHANGED <<wsVars, multiVars>>

\* line 609
IdentifySearches ==
    /\ pc = "plan"
    /\ \E answer \in PlanAnswers :
          LET r == ParseSearches(answer)
          IN  /\ lastCall' = [op |-> "identify_searches",
                               arg |-> IdentifyArg(Summaries), answer |-> <<>>,
                               ret |-> Unset]
              /\ log' = Append(log, "identify_searches")
              /\ IF r = ParseError
                 THEN pc' = "raised" /\ searches' = searches
                 ELSE pc' = "planned" /\ searches' = r
    /\ UNCHANGED <<round, Summaries, searchVars, URLsToBrowse, tasks, gathered,
                   outcome, response>>
    /\ UNCHANGED <<wsVars, multiVars>>

\* lines 610-612
NoSearchNeeded ==
    /\ pc = "planned"
    /\ searches = None
    /\ Notify("Generating answer...", "returned")
    /\ outcome' = IF CanSend(Session) THEN None ELSE outcome
    /\ UNCHANGED <<round, Summaries, searches, lastCall, searchVars, URLsToBrowse,
                   tasks, gathered, response>>
    /\ UNCHANGED <<wsVars, multiVars>>

\* line 614
NotifySearching ==
    /\ pc = "planned"
    /\ searches # None
    /\ Notify("Searching...", "search")
    /\ UNCHANGED <<round, Summaries, searches, lastCall, searchVars, URLsToBrowse,
                   tasks, gathered, outcome, response>>
    /\ UNCHANGED <<wsVars, multiVars>>

\* ------------------------------------------------------------ the gatherer
\* line 504: the denylist of result fields
proparray ==
    {"dateLastCrawled", "language", "richFacts", "isNavigational",
     "isFamilyFriendly", "displayUrl", "searchTags", "noCache", "cachedPageUrl",
     "datePublishedDisplayText", "datePublished", "id", "primaryImageOfPage",
     "thumbnailUrl"}

\* the fields of a result as the provider sends it
RawProps == {"name", "url", "snippet", "dateLastCrawled", "language", "id"}

\* one result of the provider for query q: a mapping from field to value
RawItem(q) == [p \in RawProps |-> q]

\* search_bing, lines 461-476: the results of one query, or None on any failure
search_bing(q, down) ==
    IF q \in down THEN None ELSE List(<<RawItem(q)>>)

\* a strip pass that deletes nothing
StripNothing(obj) == obj

\* lines 505-508: del obj[prop] for every denylisted prop of every item
StripItem(obj) == [p \in (DOMAIN obj) \ proparray |-> obj[p]]

StripAll(items) == [k \in 1..Len(items) |-> StripItem(items[k])]

\* get_search_results, lines 492-509.  The return of line 509 is inside the
\* else branch of the loop body, so the first pass of the loop returns: the
\* sentinel when search_bing gave None, and otherwise allresults, which is None
\* before it, stripped.  With no query the body never runs and the function
\* falls off its end, which returns None.
get_search_results(qs, down) ==
    IF qs = <<>>
    THEN [ret |-> None, calls |-> <<>>]
    ELSE LET search == qs[1]
             results == search_bing(search, down)
         IN  IF results = None
             THEN [ret |-> SearchErrorSentinel, calls |-> <<search>>]
             ELSE [ret |-> List(StripAll(results.v)), calls |-> <<search>>]

\* line 615 -> line 532
GetSearchResults ==
    /\ pc = "search"
    /\ \E down \in SUBSET Queries :
          LET r == get_search_results(searches.v, down)
          IN  /\ failing' = down
              /\ searchresults' = r.ret
              /\ providerCalls' = r.calls
    /\ pc' = "searched"
    /\ log' = Append(log, "get_search_results")
    /\ UNCHANGED <<round, Summaries, searches, lastCall, URLsToBrowse, tasks,
                   gathered, outcome, response>>
    /\ UNCHANGED <<wsVars, multiVars>>

UrlAnswers ==
    {<<"garbage">>, SearchErrorSentinel.v}
    \cup {<<"[">> \o us \o <<"]">> : us \in SeqsUpTo(URLs, MaxUrls)}

\* a get_urls_to_browse that never looks for the sentinel
NeverForwards(sr) == FALSE

\* get_urls_to_browse, lines 533-534: is the model left out?
ForwardsSentinel(sr) == sr = SearchErrorSentinel

\* get_urls_to_browse, lines 533-540; its locals end with it, and searches is
\* not read again before line 609 assigns it
ChooseURLs ==
    /\ pc = "searched"
    /\ IF ForwardsSentinel(searchresults)
       THEN /\ URLsToBrowse' = SearchErrorSentinel
            /\ log' = log
       ELSE /\ \E answer \in UrlAnswers : URLsToBrowse' = Str(answer)
            /\ log' = Append(log, "get_urls_to_browse")
    /\ pc' = "chosen"
    /\ failing' = {}
    /\ searchresults' = Unset
    /\ providerCalls' = <<>>
    /\ searches' = Unset
    /\ UNCHANGED <<round, Summaries, lastCall, tasks, gathered, outcome, response>>
    /\ UNCHANGED <<wsVars, multiVars>>

\* line 616
IsSearchError(u) == u = SearchErrorSentinel

\* a loop that announces the answer before it returns the sentinel
ReturnSearchErrorAnnounced ==
    /\ pc = "chosen"
    /\ IsSearchError(URLsToBrowse)
    /\ Notify("Generating answer...", "returned")
    /\ outcome' = IF CanSend(Session) THEN SearchErrorSentinel ELSE outcome
    /\ UNCHANGED <<round, Summaries, searches, lastCall, searchVars, URLsToBrowse,
                   tasks, gathered, response>>
    /\ UNCHANGED <<wsVars, multiVars>>

\* lines 616-617
ReturnSearchError ==
    /\ pc = "chosen"
    /\ IsSearchError(URLsToBrowse)
    /\ outcome' = SearchErrorSentinel
    /\ pc' = "returned"
    /\ UNCHANGED <<round, Summaries, searches, lastCall, searchVars, URLsToBrowse,
                   tasks, gathered, log, response>>
    /\ UNCHANGED <<wsVars, multiVars>>

\* line 619
NotifyBrowsing ==
    /\ pc = "chosen"
    /\ ~IsSearchError(URLsToBrowse)
    /\ Notify("Browsing and analyzing...", "browse")
    /\ UNCHANGED <<round, Summaries, searches, lastCall, searchVars, URLsToBrowse,
                   tasks, gathered, outcome, response>>
    /\ UNCHANGED <<wsVars, multiVars>>

\* a process_url coroutine, lines 560-576, as gather creates it
NewTask(URL) ==
    [URL |-> URL, st |-> "new", status |-> "none", asked |-> FALSE,
     result |-> None, end |-> 0]

\* the place of the next task to return among the tasks of this gather
NextEnd(ts) == Cardinality({k \in 1..Len(ts) : ts[k].end > 0}) + 1

\* get_article_summaries, lines 556-582: the answer is parsed and one task per
\* URL is handed to asyncio.gather
StartSummaries ==
    /\ pc = "browse"
    /\ LET parsed == JsonLoads(URLsToBrowse.v, URLs)
       IN  IF parsed = ParseError
           THEN pc' = "raised" /\ tasks' = tasks
           ELSE /\ pc' = "gather"
                /\ tasks' = [k \in 1..Len(parsed.v) |-> NewTask(parsed.v[k])]
    /\ log' = Append(log, "get_article_summaries")
    /\ UNCHANGED <<round, Summaries, searches, lastCall, searchVars, URLsToBrowse,
                   gathered, outcome, response>>
    /\ UNCHANGED <<wsVars, multiVars>>

\* a process_url that sends every page to the model
HasContentAlways(status) == TRUE

\* line 562: does the page go to the model?
HasContent(status) == status = "ok"

\* line 574
MakeSummary(URL, text) == [URL |-> URL, summary |-> text]

\* process_url up to its first suspension: fetch_and_parse_url (lines 542-553)
\* has no await, so the tasks fetch in the order gather started them; a page
\* with content is sent to the model (line 573), where the task suspends.
\* The tasks are followed while line 582 awaits them: what they do after an
\* exception has left gather is read by nobody.
TaskFetch(i) ==
    /\ pc = "gather"
    /\ i \in 1..Len(tasks)
    /\ tasks[i].st = "new"
    /\ \A j \in 1..(i - 1) : tasks[j].st # "new"
    /\ \E status \in {"ok", "bad", "raise"} :
          IF status = "raise"
          THEN tasks' = [tasks EXCEPT ![i].st = "raised", ![i].status = status]
          ELSE IF HasContent(status)
          THEN tasks' = [tasks EXCEPT ![i].st = "summarizing",
                                      ![i].status = status, ![i].asked = TRUE]
          ELSE tasks' = [tasks EXCEPT ![i].st = "done", ![i].status = status,
                                      ![i].end = NextEnd(tasks)]
    /\ UNCHANGED <<pc, round, Summaries, searches, lastCall, searchVars,
                   URLsToBrowse, gathered, log, outcome, response>>
    /\ UNCHANGED <<wsVars, multiVars>>

\* lines 573-575: the summarization call of one task returns, or raises
TaskSummarize(i) ==
    /\ pc = "gather"
    /\ i \in 1..Len(tasks)
    /\ tasks[i].st = "summarizing"
    /\ \/ \E text \in Texts :
             tasks' = [tasks EXCEPT ![i].st = "done",
                                    ![i].result = MakeSummary(tasks[i].URL, text),
                                    ![i].end = NextEnd(tasks)]
       \/ tasks' = [tasks EXCEPT ![i].st = "raised"]
    /\ UNCHANGED <<pc, round, Summaries, searches, lastCall, searchVars,
                   URLsToBrowse, gathered, log, outcome, response>>
    /\ UNCHANGED <<wsVars, multiVars>>

\* a join that hands the results over in the order the tasks returned
IsSummary(x) == x # None
EarlierEnd(ts, i) ==
    {j \in 1..Len(ts) : \/ ts[j].end < ts[i].end
                        \/ ts[j].end = ts[i].end /\ j < i}
CollectAsCompleted(ts) ==
    SelectSeq([k \in 1..Len(ts) |->
                 ts[CHOOSE i \in 1..Len(ts) :
                        Cardinality(EarlierEnd(ts, i)) = k - 1].result],
              IsSummary)

\* line 585: the results that are not None, in the order of the tasks
RECURSIVE CollectSummaries(_)
CollectSummaries(ts) ==
    IF ts = <<>> THEN <<>>
    ELSE IF Head(ts).result # None
    THEN <<Head(ts).result>> \o CollectSummaries(Tail(ts))
    ELSE CollectSummaries(Tail(ts))

\* a loop that keeps only the last round's summaries
AccumulateReplace(S, newSummaries) == List(newSummaries)

\* lines 620-624
Accumulate(S, newSummaries) ==
    IF S = None THEN List(newSummaries) ELSE List(S.v \o newSummaries)

\* a join that returns as soon as one task has returned
AnyReturned(ts) == \E k \in 1..Len(ts) : ts[k].st = "done"

\* line 582: gather returns once every task has returned
AllReturned(ts) == \A k \in 1..Len(ts) : ts[k].st = "done"

\* line 582 without return_exceptions: the first exception of a task is raised
\* to the awaiter, the other tasks are left running
SomeRaised(ts) == \E k \in 1..Len(ts) : ts[k].st = "raised"

\* lines 582-586 and 620-624; URLsToBrowse is not read again before line 615
\* assigns it
GatherReturn ==
    /\ pc = "gather"
    /\ AllReturned(tasks)
    /\ LET new == CollectSummaries(tasks)
       IN  /\ Summaries' = Accumulate(Summaries, new)
           /\ gathered' = Append(gathered, new)
    /\ tasks' = <<>>
    /\ URLsToBrowse' = Unset
    /\ pc' = "joined"
    /\ UNCHANGED <<round, searches, lastCall, searchVars, log, outcome, response>>
    /\ UNCHANGED <<wsVars, multiVars>>

GatherRaise ==
    /\ pc = "gather"
    /\ SomeRaised(tasks)
    /\ pc' = "raised"
    /\ UNCHANGED <<round, Summaries, searches, lastCall, searchVars, URLsToBrowse,
                   tasks, gathered, log, outcome, response>>
    /\ UNCHANGED <<wsVars, multiVars>>

\* line 626
NotifyDoubleChecking ==
    /\ pc = "joined"
    /\ Notify("Double checking sources...", "check")
    /\ UNCHANGED <<round, Summaries, searches, lastCall, searchVars, URLsToBrowse,
                   tasks, gathered, outcome, response>>
    /\ UNCHANGED <<wsVars, multiVars>>

SufficiencyAnswers == {MoreInformationNeeded.v, <<"Yes">>, <<>>}

\* a check that takes only a plain yes for sufficient
IsSufficientOnlyOnYes(answer) == answer = <<"Yes">>

\* is_background_info_sufficient, lines 593-600
is_background_info_sufficient(answer) == answer # MoreInformationNeeded.v

\* the Summaries argument of the is_background_info_sufficient call of line 627
SufficiencyArg(S) == S

\* a loop that gives up after its first round
NeedsMoreCapped(AreWeDone) == ~AreWeDone /\ round < 1

\* lines 603, 608 and 628-629: the loop goes on while NeedsMoreSummaries
NeedsMoreSummaries(AreWeDone) == ~AreWeDone

\* lines 627-629 and the loop test of line 608
CheckSufficiency ==
    /\ pc = "check"
    /\ \E answer \in SufficiencyAnswers :
          LET AreWeDone == is_background_info_sufficient(answer)
          IN  /\ AreWeDone \/ round < MaxRounds
              /\ pc' = IF NeedsMoreSummaries(AreWeDone) THEN "plan" ELSE "final"
              /\ round' = IF NeedsMoreSummaries(AreWeDone) THEN round + 1 ELSE round
              /\ lastCall' = [op |-> "is_background_info_sufficient",
                               arg |-> SufficiencyArg(Summaries),
                               answer |-> answer,
                               ret |-> Bool(AreWeDone)]
    /\ log' = Append(log, "is_background_info_sufficient")
    /\ UNCHANGED <<Summaries, searches, searchVars, URLsToBrowse, tasks, gathered,
                   outcome, response>>
    /\ UNCHANGED <<wsVars, multiVars>>

\* a bundle that lacks the instruction header
BackgroundPreambleNoHeader(S) ==
    JsonDumps(S) \o <<"Original System Prompt:">>

\* line 632
BackgroundPreamble(S) ==
    <<"background_info_preamble">> \o JsonDumps(S)
        \o <<"Original System Prompt:">>

\* lines 631-632
ReturnSufficient ==
    /\ pc = "final"
    /\ Notify("Generating answer...", "returned")
    /\ outcome' = IF CanSend(Session) THEN Str(BackgroundPreamble(Summaries))
                  ELSE outcome
    /\ UNCHANGED <<round, Summaries, searches, lastCall, searchVars, URLsToBrowse,
                   tasks, gathered, response>>
    /\ UNCHANGED <<wsVars, multiVars>>

\* ------------------------------------------------- conversation_internal
\* an emission that hands the loop's return value on as it is
EmissionPreambleRaw(system_preamble) == system_preamble

\* lines 637-640: the preamble handed to stream_chat_request
EmissionPreamble(system_preamble) ==
    IF system_preamble # SearchErrorSentinel THEN system_preamble
    ELSE Str(<<"search_error_preamble">>)

\* lines 637-644
AnswerEmission ==
    /\ pc = "returned"
    /\ response' = [kind |-> "stream", preamble |-> EmissionPreamble(outcome)]
    /\ log' = Append(log, "stream_chat_request")
    /\ pc' = "responded"
    /\ UNCHANGED <<round, Summaries, searches, lastCall, searchVars, URLsToBrowse,
                   tasks, gathered, outcome>>
    /\ UNCHANGED <<wsVars, multiVars>>

\* lines 646-651
ErrorResponse ==
    /\ pc = "raised"
    /\ response' = [kind |-> "error", preamble |-> None]
    /\ pc' = "responded"
    /\ UNCHANGED <<round, Summaries, searches, lastCall, searchVars, URLsToBrowse,
                   tasks, gathered, log, outcome>>
    /\ UNCHANGED <<wsVars, multiVars>>

Next ==
    \/ WsRegister
    \/ WsAnnounce
    \/ WsDisconnect
    \/ StartRequest
    \/ IdentifySearches
    \/ NoSearchNeeded
    \/ NotifySearching
    \/ GetSearchResults
    \/ ChooseURLs
    \/ ReturnSearchError
    \/ NotifyBrowsing
    \/ StartSummaries
    \/ \E i \in 1..MaxUrls : TaskFetch(i)
    \/ \E i \in 1..MaxUrls : TaskSummarize(i)
    \/ GatherReturn
    \/ GatherRaise
    \/ NotifyDoubleChecking
    \/ CheckSufficiency
    \/ ReturnSufficient
    \/ AnswerEmission
    \/ ErrorResponse

Spec == Init /\ [][Next]_vars

\* ------------------------------- several connections and several requests
\* One ws handler per member of Conns and one conversation_internal per member
\* of Runs, interleaved at their awaits.  The clients dictionary is the only
\* object they share: every other name of lines 603-632 is a local of the
\* call, kept in runs[r].  The steps of a run between two notifications touch
\* its locals only and are taken as one step.
singleVars == <<wsVars, loopVars>>

\* uuid.uuid4() of line 70: a value no earlier call returned
uuid4 == Ids \ {conns[c].id : c \in Conns}

\* ws, lines 70-71
ConnRegister(c) ==
    /\ conns[c].pc = "none"
    /\ \E page_instance_id \in uuid4 :
          /\ sinks' = [sinks EXCEPT ![page_instance_id] = c]
          /\ conns' = [conns EXCEPT ![c] = [pc |-> "registered",
                                             id |-> page_instance_id]]
    /\ UNCHANGED <<runs, inbox, singleVars>>

\* ws, line 72
ConnAnnounce(c) ==
    /\ conns[c].pc = "registered"
    /\ \E ok \in BOOLEAN :
          conns' = [conns EXCEPT ![c].pc = IF ok THEN "open" ELSE "failed"]
    /\ UNCHANGED <<sinks, runs, inbox, singleVars>>

\* ws, lines 73-80
ConnDisconnect(c) ==
    /\ conns[c].pc = "open"
    /\ sinks' = IF sinks[conns[c].id] # Absent
                THEN [sinks EXCEPT ![conns[c].id] = Absent]
                ELSE sinks
    /\ conns' = [conns EXCEPT ![c].pc = "closed"]
    /\ UNCHANGED <<runs, inbox, singleVars>>

\* a channel that sends to whichever sink is registered
StatusKeyAny(r) ==
    IF \E id \in Ids : sinks[id] # Absent
    THEN CHOOSE id \in Ids : sinks[id] # Absent
    ELSE runs[r].sid

\* lines 606 and 611-631: the key handed to set_status_message by run r
StatusKey(r) == runs[r].sid

\* set_status_message, lines 51-52, for the key id
SinkCanSend(id) ==
    /\ sinks[id] # Absent
    /\ conns[sinks[id]].pc \in {"registered", "open"}

\* lines 603-606: the request carries an id that a status connection announced
RunStart(r) ==
    /\ runs[r].pc = "idle"
    /\ \E c \in Conns :
          /\ conns[c].pc = "open"
          /\ runs' = [runs EXCEPT ![r] = [NewRun EXCEPT !.pc = "plan",
                                                        !.sid = conns[c].id,
                                                        !.round = 1]]
    /\ UNCHANGED <<sinks, conns, inbox, singleVars>>

\* the answers of the model to the calls of one run
RunPlanAnswers == {NoSearchesRequired.v, <<"garbage">>, <<"[", "q1", "]">>}
RunUrlAnswers == {SearchErrorSentinel.v, <<"[", "u1", "]">>}

\* the summary the model writes for a page that run r fetched
RunText(r) == r

\* lines 609-614, up to the notification
RunIdentify(r) ==
    /\ runs[r].pc = "plan"
    /\ \E answer \in RunPlanAnswers :
          LET searches_ == ParseSearches(answer)
          IN  runs' = [runs EXCEPT ![r] =
                  IF searches_ = ParseError THEN [@ EXCEPT !.pc = "raised"]
                  ELSE IF searches_ = None
                  THEN [@ EXCEPT !.pc = "say_generating_none"]
                  ELSE [@ EXCEPT !.pc = "say_searching",
                                 !.searches = searches_]]
    /\ UNCHANGED <<sinks, conns, inbox, singleVars>>

\* the notification run r is about to send, and where it goes on afterwards
RunMessage(r) ==
    CASE runs[r].pc = "say_generating_none" ->
            [message |-> "Generating answer...", next |-> "returned"]
      [] runs[r].pc = "say_searching" ->
            [message |-> "Searching...", next |-> "search"]
      [] runs[r].pc = "say_browsing" ->
            [message |-> "Browsing and analyzing...", next |-> "browse"]
      [] runs[r].pc = "say_checking" ->
            [message |-> "Double checking sources...", next |-> "check"]
      [] runs[r].pc = "say_generating" ->
            [message |-> "Generating answer...", next |-> "returned"]

\* lines 611-612, 614, 619, 626 and 631-632: one set_status_message of run r,
\* with the return that follows the two "Generating answer..." messages
RunSetStatus(r) ==
    /\ runs[r].pc \in {"say_generating_none", "say_searching", "say_browsing",
                       "say_checking", "say_generating"}
    /\ LET m == RunMessage(r)
           id == StatusKey(r)
       IN  IF SinkCanSend(id)
           THEN /\ inbox' = [inbox EXCEPT ![sinks[id]] = @ \cup {r}]
                /\ runs' = [runs EXCEPT ![r] =
                      [@ EXCEPT !.pc = m.next,
                                !.outcome =
                                    IF runs[r].pc = "say_generating_none"
                                    THEN None
                                    ELSE IF runs[r].pc = "say_generating"
                                    THEN Str(BackgroundPreamble(runs[r].Summaries))
                                    ELSE @]]
           ELSE /\ inbox' = inbox
                /\ runs' = [runs EXCEPT ![r].pc = "raised"]
    /\ UNCHANGED <<sinks, conns, singleVars>>

\* lines 615-617
RunSearch(r) ==
    /\ runs[r].pc = "search"
    /\ \E down \in SUBSET Queries :
          LET searchresults_ == get_search_results(runs[r].searches.v, down).ret
          IN  \E answer \in RunUrlAnswers :
                 LET URLsToBrowse_ ==
                         IF ForwardsSentinel(searchresults_)
                         THEN SearchErrorSentinel ELSE Str(answer)
                 IN  runs' = [runs EXCEPT ![r] =
                         IF IsSearchError(URLsToBrowse_)
                         THEN [@ EXCEPT !.pc = "returned",
                                        !.searches = Unset,
                                        !.outcome = SearchErrorSentinel]
                         ELSE [@ EXCEPT !.pc = "say_browsing",
                                        !.searches = Unset,
                                        !.URLsToBrowse = URLsToBrowse_]]
    /\ UNCHANGED <<sinks, conns, inbox, singleVars>>

\* what a process_url task of run r ends with: a summary, None or an exception
RunTaskResults(r, URL) ==
    {[NewTask(URL) EXCEPT !.st = "done", !.status = "ok",
                          !.result = MakeSummary(URL, RunText(r))],
     [NewTask(URL) EXCEPT !.st = "done", !.status = "bad"],
     [NewTask(URL) EXCEPT !.st = "raised"]}

\* lines 620-624: get_article_summaries to its end, and the accumulation
RunGather(r) ==
    /\ runs[r].pc = "browse"
    /\ LET parsed == JsonLoads(runs[r].URLsToBrowse.v, URLs)
       IN  \E ts \in [1..Len(parsed.v) -> UNION {RunTaskResults(r, u) : u \in URLs}] :
              /\ \A k \in 1..Len(ts) : ts[k].URL = parsed.v[k]
              /\ runs' = [runs EXCEPT ![r] =
                    IF SomeRaised(ts) THEN [@ EXCEPT !.pc = "raised"]
                    ELSE [@ EXCEPT !.pc = "say_checking",
                                   !.URLsToBrowse = Unset,
                                   !.Summaries =
                                       Accumulate(@, CollectSummaries(ts))]]
    /\ UNCHANGED <<sinks, conns, inbox, singleVars>>

\* lines 627-629 and the loop test of line 608
RunCheck(r) ==
    /\ runs[r].pc = "check"
    /\ \E answer \in SufficiencyAnswers :
          LET AreWeDone == is_background_info_sufficient(answer)
          IN  /\ AreWeDone \/ runs[r].round < MaxRounds
              /\ runs' = [runs EXCEPT ![r] =
                    IF NeedsMoreSummaries(AreWeDone)
                    THEN [@ EXCEPT !.pc = "plan", !.round = @ + 1]
                    ELSE [@ EXCEPT !.pc = "say_generating"]]
    /\ UNCHANGED <<sinks, conns, inbox, singleVars>>

RunStep(r) ==
    \/ RunStart(r)
    \/ RunIdentify(r)
    \/ RunSetStatus(r)
    \/ RunSearch(r)
    \/ RunGather(r)
    \/ RunCheck(r)

NextMulti ==
    \/ \E c \in Conns : ConnRegister(c)
    \/ \E c \in Conns : ConnAnnounce(c)
    \/ \E c \in Conns : ConnDisconnect(c)
    \/ \E r \in Runs : RunStart(r)
    \/ \E r \in Runs : RunIdentify(r)
    \/ \E r \in Runs : RunSetStatus(r)
    \/ \E r \in Runs : RunSearch(r)
    \/ \E r \in Runs : RunGather(r)
    \/ \E r \in Runs : RunCheck(r)

SpecMulti == Init /\ [][NextMulti]_vars

\* ================================================================== claims
IsPrefix(a, b) == Len(a) <= Len(b) /\ SubSeq(b, 1, Len(a)) = a

RECURSIVE Flatten(_)
Flatten(ss) == IF ss = <<>> THEN <<>> ELSE Head(ss) \o Flatten(Tail(ss))

CountOf(s, x) == Cardinality({k \in 1..Len(s) : s[k] = x})

LastIndexOf(s, x) ==
    IF \E k \in 1..Len(s) : s[k] = x
    THEN CHOOSE k \in 1..Len(s) : s[k] = x /\ \A j \in (k + 1)..Len(s) : s[j] # x
    ELSE 0

\* what the log holds after the last x
AfterLast(s, x) == SubSeq(s, LastIndexOf(s, x) + 1, Len(s))

OrNil(S) == IF S = None THEN <<>> ELSE S.v

IsBundle(o) == o.tag = "str" /\ o # SearchErrorSentinel

\* the JSON text of one Summary, and of a list of them
SummaryText(x) == <<"{", "URL", x.URL, "summary", x.summary, "}">>

SummariesText(xs) ==
    <<"[">> \o Flatten([k \in 1..Len(xs) |-> SummaryText(xs[k])]) \o <<"]">>

\* C1: every identify_searches call of a round after the first is given the
\* accumulated Summaries, and the call of the first round is given none.
C1_PlanningGetsSummaries ==
    pc = "planned" =>
        lastCall.arg = (IF round = 1 THEN None ELSE Summaries)

\* C2: the accumulated Summaries only grow by appending.  Once there are
\* Summaries every step keeps them as a prefix; the Summarizing step puts the
\* round's new summaries after the ones held before it; an insufficient verdict
\* hands the collection to the next round as it is.
C2_SummariesOnlyAppend ==
    [][/\ Summaries # None =>
            Summaries' # None /\ IsPrefix(Summaries.v, Summaries'.v)
       /\ (pc = "gather" /\ pc' = "joined") =>
            Summaries' = List(OrNil(Summaries) \o gathered'[Len(gathered')])
       /\ (pc = "check" /\ pc' = "plan") => Summaries' = Summaries]_vars

\* C2 witness: a second round has appended summaries to those of the first
C2_Witness ==
    /\ pc = "joined"
    /\ round = 2
    /\ gathered[1] # <<>>
    /\ gathered[2] # <<>>
    /\ Summaries.v = gathered[1] \o gathered[2]

\* C3: the loop returns a bundle only directly after is_background_info_sufficient,
\* called on the accumulated Summaries, returned true; the bundle is the header,
\* then the text of all Summaries of all rounds in round order; and once a
\* check has passed no further planning, search or summarize call is made.
C3_SufficientOnlyAfterPassingCheck ==
    /\ (lastCall.op = "is_background_info_sufficient" /\ lastCall.ret = Bool(TRUE)) =>
          /\ pc \in {"final", "returned", "raised", "responded"}
          /\ CountOf(log, "identify_searches") = round
          /\ CountOf(log, "get_search_results") = round
          /\ CountOf(log, "get_article_summaries") = round
          /\ Len(gathered) = round
    /\ IsBundle(outcome) =>
          /\ lastCall.op = "is_background_info_sufficient"
          /\ lastCall.ret = Bool(TRUE)
          /\ lastCall.arg = List(Flatten(gathered))
          /\ AfterLast(log, "is_background_info_sufficient")
                \in {<<"Generating answer...">>,
                     <<"Generating answer...", "stream_chat_request">>}
          /\ outcome.v = <<"background_info_preamble">>
                            \o SummariesText(Flatten(gathered))
                            \o <<"Original System Prompt:">>

\* C3 witness: the first round's check passed on two Summaries and the bundle
\* went to the answer
C3_Witness ==
    /\ pc = "responded"
    /\ IsBundle(outcome)
    /\ round = 1
    /\ Len(gathered[1]) = 2
    /\ response.kind = "stream"

\* the positions at which the loop calls set_status_message next
AtNotify ==
    \/ pc \in {"planned", "joined", "final"}
    \/ pc = "chosen" /\ URLsToBrowse # SearchErrorSentinel

CountTasks(ts, u, status) ==
    Cardinality({k \in 1..Len(ts) : ts[k].URL = u /\ ts[k].status = status})

CountSummaries(xs, u) == Cardinality({k \in 1..Len(xs) : xs[k].URL = u})

\* C4: when identify_searches yields None the loop sends "Generating answer..."
\* and returns None (NoSearchNeeded) as its next step, with no search, URL
\* selection, fetch or summarization call in between.
C4_NoneEndsWithNoSearchNeeded ==
    [][(pc = "planned" /\ searches = None /\ pc' # pc) =>
          /\ pc' = "returned"
          /\ outcome' = None
          /\ log' = Append(log, "Generating answer...")
          /\ tasks' = tasks]_vars

\* C5: when get_search_results gives the sentinel, get_urls_to_browse hands it
\* on without a model call; a sentinel from get_urls_to_browse makes the loop
\* return it as its next step; and after that nothing but the answer follows:
\* no fetch, summarization, sufficiency check or planning.
C5_SearchErrorEndsTheLoop ==
    [][/\ (pc = "searched" /\ searchresults = SearchErrorSentinel /\ pc' # pc) =>
            /\ pc' = "chosen"
            /\ URLsToBrowse' = SearchErrorSentinel
            /\ log' = log
       /\ (pc = "chosen" /\ URLsToBrowse = SearchErrorSentinel /\ pc' # pc) =>
            /\ pc' = "returned"
            /\ outcome' = SearchErrorSentinel
            /\ log' = log
            /\ UNCHANGED <<tasks, round, Summaries, gathered>>
       /\ (outcome = SearchErrorSentinel /\ pc' # pc) =>
            /\ pc' = "responded"
            /\ log' = Append(log, "stream_chat_request")
            /\ UNCHANGED <<tasks, round, Summaries, gathered>>]_vars

\* C5 witness: the search of a second round failed and the loop returned the
\* sentinel without a URL-selection call
C5_Witness ==
    /\ pc = "returned"
    /\ outcome = SearchErrorSentinel
    /\ round = 2
    /\ log[Len(log)] = "get_search_results"
    /\ tasks = <<>>

\* C6: for a batch of n >= 1 queries on none of which the provider fails,
\* get_search_results calls the provider once per query in batch order and
\* returns the results of all n queries in that order.
C6_OneCallPerQuery ==
    (/\ pc = "searched"
     /\ searches.v # <<>>
     /\ \A k \in 1..Len(searches.v) : searches.v[k] \notin failing) =>
        /\ providerCalls = searches.v
        /\ searchresults =
              List([k \in 1..Len(searches.v) |-> StripItem(RawItem(searches.v[k]))])

\* C7: get_search_results returns "Search error." when the provider fails on
\* any query of the batch, whatever its position.
C7_AnyFailureGivesSentinel ==
    (/\ pc = "searched"
     /\ \E k \in 1..Len(searches.v) : searches.v[k] \in failing) =>
        searchresults = SearchErrorSentinel

\* C8: a notification for a session that is no longer a key of clients raises
\* nothing: the loop goes on from it.
C8_NotifyAfterDisconnectIsSilent ==
    [][(Session \notin clients /\ AtNotify /\ pc' # pc) => pc' # "raised"]_vars

\* C9: a failure of one URL's fetch or summarization does not abort the batch:
\* when a task has produced a Summary, get_article_summaries returns and that
\* Summary is among the accumulated ones.
C9_TaskFailureDoesNotAbort ==
    [][(/\ pc = "gather"
        /\ \E k \in 1..Len(tasks) : tasks[k].st = "done" /\ tasks[k].result # None
        /\ pc' # pc) =>
          /\ pc' = "joined"
          /\ \A k \in 1..Len(tasks) :
                (tasks[k].st = "done" /\ tasks[k].result # None) =>
                    \E j \in 1..Len(Summaries'.v) : Summaries'.v[j] = tasks[k].result]_vars

C11_StrippedFieldsNeverReturned ==
    (pc = "searched" /\ searchresults.tag = "list") =>
        \A k \in 1..Len(searchresults.v) :
            LET item == searchresults.v[k]
            IN  /\ (DOMAIN item) \cap proparray = {}
                /\ \E j \in 1..Len(providerCalls) :
                      LET raw == RawItem(providerCalls[j])
                      IN  /\ DOMAIN item = (DOMAIN raw) \ proparray
                          /\ \A p \in DOMAIN item : item[p] = raw[p]

\* C11 witness: a batch has returned an item, which kept its url
C11_Witness ==
    /\ pc = "searched"
    /\ searchresults.tag = "list"
    /\ Len(searchresults.v) >= 1
    /\ "url" \in DOMAIN searchresults.v[1]

\* C12: the user-facing completion is invoked once for each outcome of the
\* loop: with the bundle as preamble on Sufficient, with None on
\* NoSearchNeeded, with the search-error instruction on SearchError.
C12_OneEmissionPerOutcome ==
    /\ CountOf(log, "stream_chat_request") <= 1
    /\ (pc = "responded" /\ outcome # Unset) =>
          /\ response.kind = "stream"
          /\ CountOf(log, "stream_chat_request") = 1
          /\ IsBundle(outcome) => response.preamble = outcome
          /\ outcome = None => response.preamble = None
          /\ outcome = SearchErrorSentinel =>
                response.preamble = Str(<<"search_error_preamble">>)
    /\ (response # Unset /\ response.kind = "stream") =>
          outcome # Unset /\ pc = "responded"

\* C12 witness: a search error was answered with the search-error instruction
C12_Witness ==
    /\ pc = "responded"
    /\ outcome = SearchErrorSentinel
    /\ response.kind = "stream"
    /\ response.preamble = Str(<<"search_error_preamble">>)

\* C13: once the ws handler of a session has ended, whatever ended it, the
\* session id is no key of clients.
C13_EndedConnectionIsUnregistered ==
    wsPc \in {"closed", "failed"} => Session \notin clients

\* C14: an answer that does not parse as a list never becomes the loop's
\* searches or URLs; the exception of the parse leaves the loop with no
\* outcome, and the next step of the request is the error response, after
\* which the request does nothing more: no round, no user-facing completion.
C14_ParseErrorPropagates ==
    [][/\ pc' \in {"planned", "search", "searched"} =>
            \/ searches' = None
            \/ /\ searches'.tag = "list"
               /\ \A k \in 1..Len(searches'.v) : searches'.v[k] \in Queries
       /\ \A k \in 1..Len(tasks') : tasks'[k].URL \in URLs
       /\ (pc \in {"plan", "browse"} /\ pc' = "raised") =>
            /\ outcome' = Unset
            /\ response' = Unset
            /\ tasks' = <<>>
            /\ UNCHANGED <<round, Summaries, gathered>>
       /\ (pc = "raised" /\ pc' # pc) =>
            /\ pc' = "responded"
            /\ response'.kind = "error"
            /\ log' = log
            /\ UNCHANGED <<round, Summaries, gathered, outcome>>
       /\ (pc = "responded" /\ response.kind = "error") =>
            /\ UNCHANGED <<pc, log, round, response, outcome>>
            /\ CountOf(log, "stream_chat_request") = 0]_vars

\* C14 witness: the planning answer of a second round did not parse and the
\* request was answered with the error response
C14_Witness ==
    /\ pc = "responded"
    /\ response.kind = "error"
    /\ round = 2
    /\ log[Len(log)] = "identify_searches"
    /\ searches = Unset

RoundStarted(s) == s \in {"joined", "check", "final", "plan", "planned", "search",
                          "searched", "chosen", "browse", "returned"}

Running(t) == t.st \in {"new", "summarizing"}

\* C18: get_article_summaries returns only when every task it started has
\* returned, so no task is running when "Double checking sources..." is sent,
\* when the sufficiency check is made or when the next round is planned.
C18_JoinBeforeCheck ==
    [][/\ (pc = "gather" /\ pc' = "joined") =>
            /\ Len(tasks) > 0 => \A k \in 1..Len(tasks) : tasks[k].st = "done"
            /\ Len(gathered'[Len(gathered')]) =
                  Cardinality({k \in 1..Len(tasks) : tasks[k].result # None})
       /\ RoundStarted(pc') => \A k \in 1..Len(tasks') : ~Running(tasks'[k])
       /\ (log' # log /\ log'[Len(log')] \in {"Double checking sources...",
                                              "is_background_info_sufficient",
                                              "identify_searches"}) =>
            \A k \in 1..Len(tasks) : ~Running(tasks[k])]_vars

\* C18 witness: a full batch of tasks was joined and the check announced
C18_Witness ==
    /\ pc = "check"
    /\ Len(gathered[round]) = MaxUrls
    /\ log[Len(log)] = "Double checking sources..."
    /\ tasks = <<>>

\* what may directly follow an entry of the loop's log
LogSuccessors(x) ==
    CASE x = "identify_searches" -> {"Searching...", "Generating answer..."}
      [] x = "Searching..." -> {"get_search_results"}
      [] x = "get_search_results" -> {"get_urls_to_browse", "stream_chat_request"}
      [] x = "get_urls_to_browse" -> {"Browsing and analyzing...",
                                      "stream_chat_request"}
      [] x = "Browsing and analyzing..." -> {"get_article_summaries"}
      [] x = "get_article_summaries" -> {"Double checking sources..."}
      [] x = "Double checking sources..." -> {"is_background_info_sufficient"}
      [] x = "is_background_info_sufficient" -> {"identify_searches",
                                                 "Generating answer..."}
      [] x = "Generating answer..." -> {"stream_chat_request"}
      [] OTHER -> {}

\* C19: the steps and notifications of every round come in the order
\* identify_searches, "Searching...", search and URL selection, "Browsing and
\* analyzing...", get_article_summaries, "Double checking sources...",
\* is_background_info_sufficient, and a round starts only after the check of
\* the round before it.
C19_StepsInOrder ==
    /\ log # <<>> => log[1] = "identify_searches"
    /\ \A k \in 1..(Len(log) - 1) : log[k + 1] \in LogSuccessors(log[k])
    /\ pc \in {"search", "browse", "check"} =>
          log[Len(log)] \in {"Searching...", "Browsing and analyzing...",
                             "Double checking sources..."}
    /\ CountOf(log, "identify_searches") <= round
    /\ CountOf(log, "identify_searches")
          <= CountOf(log, "is_background_info_sufficient") + 1

\* C19 witness: two whole rounds have run
C19_Witness ==
    /\ pc = "final"
    /\ round = 2
    /\ Len(log) = 16

\* C20: the loop returns None (NoSearchNeeded) only while it holds no
\* Summaries, so Summaries of earlier rounds are never dropped by it.
C20_NoSearchNeededLosesNothing ==
    outcome = None => OrNil(Summaries) = <<>>

\* the frames of the runs other than r, and the entries of the registry that
\* connections other than c registered
OtherRuns(r) == [q \in Runs \ {r} |-> runs[q]]
OtherEntries(c) ==
    [d \in {e \in Conns \ {c} : conns[e].id # NoId} |-> sinks[conns[d].id]]

\* C17: with several runs and several status connections interleaved, the
\* Summaries of a run hold only what its own rounds gathered and its bundle is
\* built from them alone, a step of one run leaves the frame of every other
\* run as it was, a connection has been sent messages only by runs that carry
\* the id it registered under, and a registration or a removal leaves the
\* registry entry of every other connection as it was.
C17_RunsAndSessionsIsolated ==
    /\ [](\A r \in Runs :
            /\ \A k \in 1..Len(OrNil(runs[r].Summaries)) :
                  OrNil(runs[r].Summaries)[k].summary = RunText(r)
            /\ IsBundle(runs[r].outcome) =>
                  runs[r].outcome = Str(BackgroundPreamble(runs[r].Summaries)))
    /\ [](\A c \in Conns : \A r \in inbox[c] : conns[c].id = runs[r].sid)
    /\ [][/\ \A r \in Runs : runs'[r] # runs[r] =>
                /\ OtherRuns(r)' = OtherRuns(r)
                /\ RunStep(r)
          /\ \A c \in Conns : conns'[c] # conns[c] =>
                /\ OtherEntries(c)' = OtherEntries(c)
                /\ runs' = runs]_vars

C17_Witness ==
    /\ \A r \in Runs :
          /\ runs[r].pc = "returned"
          /\ IsBundle(runs[r].outcome)
          /\ runs[r].round = MaxRounds
          /\ Len(OrNil(runs[r].Summaries)) >= 2
    /\ runs["r1"].sid # runs["r2"].sid
    /\ \A c \in Conns : inbox[c] # {} /\ conns[c].pc = "closed"

\* the notifications of a run, in the order they were sent
StatusMessages ==
    {"Searching...", "Browsing and analyzing...", "Double checking sources...",
     "Generating answer..."}
IsStatusMessage(x) == x \in StatusMessages
Notifications == SelectSeq(log, IsStatusMessage)
LastNotification ==
    IF Notifications = <<>> THEN "none"
    ELSE Notifications[Len(Notifications)]
Emitted == pc = "responded" /\ response.kind = "stream"

\* C21 as stated: whenever the user-facing completion is invoked at the end of
\* a run, the last notification of the run was "Generating answer..." and it
\* was sent exactly once, whatever the outcome.
C21_GeneratingAnswerBeforeEveryEmission ==
    Emitted =>
        /\ LastNotification = "Generating answer..."
        /\ CountOf(log, "Generating answer...") = 1

\* C21, amended: when the completion is invoked after NoSearchNeeded or
\* Sufficient, the last notification was "Generating answer..." and it was
\* sent exactly once; after SearchError it was never sent and the last
\* notification is the "Searching..." of the round that failed.
C21_GeneratingAnswerUnlessSearchError ==
    Emitted =>
        IF outcome = SearchErrorSentinel
        THEN /\ LastNotification = "Searching..."
             /\ CountOf(log, "Generating answer...") = 0
        ELSE /\ LastNotification = "Generating answer..."
             /\ CountOf(log, "Generating answer...") = 1

C21_Witness ==
    /\ Emitted
    /\ outcome = SearchErrorSentinel
    /\ round = 2
    /\ CountOf(log, "Searching...") = 2

\* xs is made of the summaries of ts, each at most once, in the order of ts
InInputOrder(xs, ts) ==
    \E f \in [1..Len(xs) -> 1..Len(ts)] :
        /\ \A k \in 1..Len(xs) : xs[k] = ts[f[k]].result
        /\ \A k \in 1..Len(xs) : \A l \in 1..Len(xs) : k < l => f[k] < f[l]

\* C22: what get_article_summaries returns holds the Summaries in the relative
\* order of their URLs in the input list, whatever order the tasks returned in.
C22_SummariesInInputOrder ==
    [][(pc = "gather" /\ pc' = "joined") =>
          LET new == gathered'[Len(gathered')]
          IN  /\ InInputOrder(new, tasks)
              /\ \A k \in 1..Len(new) : \A l \in 1..Len(new) :
                    (k < l /\ new[k].URL # new[l].URL) =>
                        \E i \in 1..Len(tasks) : \E j \in 1..Len(tasks) :
                            /\ i < j
                            /\ tasks[i].URL = new[k].URL
                            /\ tasks[j].URL = new[l].URL]_vars

\* C22 witness: the task of the second URL returned its Summary before the
\* task of the first URL did, and the join is complete
C22_Witness ==
    /\ pc = "gather"
    /\ Len(tasks) >= 2
    /\ AllReturned(tasks)
    /\ tasks[1].URL # tasks[2].URL
    /\ tasks[1].result # None
    /\ tasks[2].result # None
    /\ tasks[2].end < tasks[1].end

\* C23: for every batch, the empty one included, get_search_results returns a
\* list of results or the "Search error." sentinel, and it calls the provider
\* for no query when the batch is empty.
C23_ListOrSentinelForEveryBatch ==
    pc = "searched" =>
        /\ searchresults.tag = "list" \/ searchresults = SearchErrorSentinel
        /\ searches.v = <<>> => providerCalls = <<>>
====
